---- MODULE Spec2Model ----
(***************************************************************************)
(* Ingestion/dispatch core of taotie: the message queue (in-process and    *)
(* Redis pub/sub backends), the gatherer's fetch-and-dispatch loop, the    *)
(* consumer boundary and the source's _send_data.                          *)
(*                                                                         *)
(* Scheduling is asyncio's: one task runs until it reaches an await that   *)
(* really suspends (asyncio.sleep, network I/O, consumer.process).  The    *)
(* in-process queue wraps an unbounded asyncio.Queue, whose put never      *)
(* suspends and whose get does not suspend while qsize() > 0, so           *)
(* SimpleMessageQueue.put/get/empty each run as one step.                  *)
(***************************************************************************)
EXTENDS Naturals, Sequences, FiniteSets, TLC

(* ---------------------------- bounds ----------------------------------- *)
\* number of payloads offered to the queue in one behaviour: MessageQueue.put
\* calls by producers and publishes by other clients of the channel
MaxPuts == 3
\* largest batch_size the gatherer is constructed with (0..MaxBatch)
MaxBatch == 3
\* number of BaseSource._send_data calls in one behaviour
MaxSends == 3
\* how many of those payloads other Redis clients may publish on the channel
MaxForeign == 1
\* number of close() calls made on the queue
MaxCloses == 2
\* number of Orchestrator.add_source calls before run()
MaxAdds == 3
\* number of source objects of one class
MaxPerClass == 2
\* number of tasks that call one DedupMemory concurrently
MaxCallers == 2
\* number of DedupMemory operations started in one behaviour
MaxOps == 3
\* largest value of the clock
MaxTime == 2
\* largest number of tweets TwitterSubscriber flushes at once
MaxFlush == 2
\* longest list get_trending_repos returns
MaxRepos == 2
\* number of polling cycles of GithubTrends.run
MaxCycles == 2
\* number of requests HttpService handles
MaxRequests == 2
\* longest batch handed to Consumer.process
MaxIndexBatch == 2
\* number of Consumer.process calls in one behaviour
MaxProcessCalls == 2
\* keyword arguments of one Information beyond the five named ones
MaxExtra == 2
\* Logger(...) constructions in one process
MaxLoggers == 3

(* ------------------------- JSON text and values ------------------------ *)
\* A text is a sequence of lexical tokens: punctuation, a quoted string, a
\* number, or a bare word (which no JSON value starts with).
P(c) == [k |-> "punct", v |-> c]
S(s) == [k |-> "str", v |-> s]
N(n) == [k |-> "num", v |-> n]
B(w) == [k |-> "bare", v |-> w]

NoValue == [t |-> "none", v |-> <<>>]
Failure == [ok |-> FALSE, val |-> NoValue, next |-> 0]
Success(val, next) == [ok |-> TRUE, val |-> val, next |-> next]

IsTok(text, i, tok) == i <= Len(text) /\ text[i] = tok

\* dict assignment d[key] = val: a repeated key keeps its place and takes
\* the later value, a new key goes last
DictSet(pairs, key, val) ==
    IF \E i \in DOMAIN pairs : pairs[i][1] = key
    THEN [i \in DOMAIN pairs |->
            IF pairs[i][1] = key THEN <<key, val>> ELSE pairs[i]]
    ELSE Append(pairs, <<key, val>>)

RECURSIVE ParseValue(_, _), ParseElems(_, _, _), ParseMembers(_, _, _)

\* the value starting at token i: [ok, val, next]
ParseValue(text, i) ==
    IF i > Len(text) THEN Failure
    ELSE IF text[i].k = "num" THEN Success([t |-> "num", v |-> text[i].v], i + 1)
    ELSE IF text[i].k = "str" THEN Success([t |-> "str", v |-> text[i].v], i + 1)
    ELSE IF text[i] = P("[") THEN
        IF IsTok(text, i + 1, P("]"))
        THEN Success([t |-> "arr", v |-> <<>>], i + 2)
        ELSE ParseElems(text, i + 1, <<>>)
    ELSE IF text[i] = P("{") THEN
        IF IsTok(text, i + 1, P("}"))
        THEN Success([t |-> "obj", v |-> <<>>], i + 2)
        ELSE ParseMembers(text, i + 1, <<>>)
    ELSE Failure

ParseElems(text, i, acc) ==
    LET r == ParseValue(text, i) IN
    IF ~r.ok THEN Failure
    ELSE IF IsTok(text, r.next, P(","))
         THEN ParseElems(text, r.next + 1, Append(acc, r.val))
    ELSE IF IsTok(text, r.next, P("]"))
         THEN Success([t |-> "arr", v |-> Append(acc, r.val)], r.next + 1)
    ELSE Failure

ParseMembers(text, i, acc) ==
    IF ~(i + 1 <= Len(text) /\ text[i].k = "str" /\ text[i + 1] = P(":"))
    THEN Failure
    ELSE LET r == ParseValue(text, i + 2) IN
         IF ~r.ok THEN Failure
         ELSE IF IsTok(text, r.next, P(","))
              THEN ParseMembers(text, r.next + 1, DictSet(acc, text[i].v, r.val))
         ELSE IF IsTok(text, r.next, P("}"))
              THEN Success([t |-> "obj", v |-> DictSet(acc, text[i].v, r.val)],
                           r.next + 1)
         ELSE Failure

\* json.loads: the whole text is one value, else JSONDecodeError
JsonLoads(text) ==
    LET r == ParseValue(text, 1) IN
    IF r.ok /\ r.next = Len(text) + 1 THEN r ELSE Failure

RECURSIVE JsonDumps(_), DumpItems(_), DumpPairs(_)

\* json.dumps(value, ensure_ascii=False)
JsonDumps(val) ==
    IF val.t = "num" THEN <<N(val.v)>>
    ELSE IF val.t = "str" THEN <<S(val.v)>>
    ELSE IF val.t = "arr" THEN <<P("[")>> \o DumpItems(val.v) \o <<P("]")>>
    ELSE <<P("{")>> \o DumpPairs(val.v) \o <<P("}")>>

DumpItems(items) ==
    IF items = <<>> THEN <<>>
    ELSE IF Len(items) = 1 THEN JsonDumps(items[1])
    ELSE JsonDumps(items[1]) \o <<P(",")>> \o DumpItems(Tail(items))

DumpPairs(pairs) ==
    IF pairs = <<>> THEN <<>>
    ELSE LET one == <<S(pairs[1][1]), P(":")>> \o JsonDumps(pairs[1][2]) IN
         IF Len(pairs) = 1 THEN one
         ELSE one \o <<P(",")>> \o DumpPairs(Tail(pairs))

(* ------------------------------ inputs --------------------------------- *)
\* '1', '{"a":1}', '{"id":"1"}': texts json.loads accepts
ValidTexts ==
    { <<N("1")>>,
      <<P("{"), S("a"), P(":"), N("1"), P("}")>>,
      <<P("{"), S("id"), P(":"), S("1"), P("}")>> }
\* 'not json', '{"a":': texts json.loads rejects
InvalidTexts ==
    { <<B("not"), B("json")>>,
      <<P("{"), S("a"), P(":")>> }
Inputs == ValidTexts \cup InvalidTexts

Backends == {"simple", "redis"}

(* ------------------------------- state --------------------------------- *)
VARIABLES
    backend,          \* which MessageQueue class the gatherer and producers share
    batch_size,       \* Gatherer.batch_size
    queue,            \* SimpleMessageQueue.queue (asyncio.Queue), oldest first
    connected,        \* RedisMessageQueue: connect() has set redis/pubsub and subscribed
    pubsub,           \* RedisMessageQueue.pubsub: published payloads not yet read
    putCalls,         \* number of MessageQueue.put calls made
    lastPut,          \* argument and outcome of the latest put call
    putLog,           \* texts for which put returned True, in call order
    getLog,           \* concatenation of the results of all get calls
    firstGet,         \* the gatherer has issued a get
    latePut,          \* a put was accepted after the gatherer's first get
    pc,               \* where Gatherer.run stands
    running,          \* Gatherer._running
    cancelRequested,  \* task.cancel() was called on the gatherer's task
    check_empty,      \* Gatherer.run local
    messages,         \* Gatherer.run local: the texts returned by get
    processLog,       \* arguments of the consumer.process calls, in call order
    returned,         \* indexes of process calls that returned
    failed,           \* indexes of process calls that raised
    aborted,          \* indexes of process calls ended by CancelledError
    dedupAttached,    \* a dedup_memory was passed to the source's constructor
    sendLog,          \* Information records passed to _send_data, in call order
    sinkPutCalls,     \* texts passed to sink.put by _send_data, in call order
    memory,           \* DedupMemory: the keys the store holds
    saveCalls,        \* keys passed to check_and_save by _send_data, in call order
    lastSend,         \* id, exists(id) at the call, and outcome of the latest _send_data
    arrived,          \* RedisMessageQueue: texts delivered to the subscription, in order
    foreignCount,     \* payloads published on the channel by clients other than put
    closed,           \* RedisMessageQueue.close() has unsubscribed and closed the client
    closeCalls,       \* number of close() calls made on the queue
    lastClose,        \* outcome of the latest close() call
    sources,          \* Orchestrator.sources: class name -> source instance
    added,            \* source instances passed to add_source, in call order
    gathererSet,      \* Orchestrator.set_gatherer has assigned self.gatherer
    orchPc,           \* where Orchestrator.run stands
    todo,             \* Orchestrator.run: sources the for loop has not reached yet
    started,          \* source instances whose start() was called
    dedup,            \* Consumer.dedup
    in_memory_index,  \* Consumer.in_memory_index: id -> message, in insertion order
    hookLog,          \* arguments of the Consumer._process calls, in call order
    lastProcess,      \* argument and outcome of the latest Consumer.process call
    stamp,            \* DedupMemory: the timestamp stored under each key the store holds
    now,              \* int(time.time())
    dmConnected,      \* DedupMemory.connected
    connectCalls,     \* number of DedupMemory.connect() executions
    call,             \* per caller: the DedupMemory operation it runs and where it stands
    opsStarted,       \* number of DedupMemory operations started
    twitterRaised,    \* TwitterSubscriber.run has ended with an exception
    ghPc,             \* where GithubTrends.run stands
    ghRepos,          \* GithubTrends.run: repositories the for loop has not reached yet
    ghFailed,         \* ids of the repositories whose readme fetch failed
    ghCycles,         \* number of get_trending_repos calls made
    httpLog,          \* per request handled by check_url: the answer and the records sent
    rec,              \* Information.data of the record under test
    rtPc,             \* how far the record has gone: new, encoded, put, parsed
    transit,          \* what the queue holds after put(rec.encode())
    putRet,           \* what put(rec.encode()) returned
    decoded,          \* what Gatherer._filter made of the message
    life,             \* per source object: absent, raised (constructor failed), built, running
    ctorArg,          \* per source object: the sink its constructor was called with
    sinkAttr,         \* per source object: self.sink
    atexitHooks,      \* source objects whose _cleanup was passed to atexit.register
    reachable,        \* the Redis server behind DedupMemory answers
    dmLast,           \* how the latest DedupMemory operation or close() ended
    dmClosed,         \* DedupMemory.close() has awaited self.redis.close()
    dmCloseCalls,     \* number of DedupMemory.close() calls made
    logObjects,       \* Logger objects made by super().__new__: Logger._instance is set
    logName,          \* Logger._instance.logger.name
    logVerbose,       \* Logger._instance.verbose
    loggerLog         \* per Logger(...) call: its arguments and the name of what it returned

configVars == <<backend, batch_size, dedupAttached>>
queueVars == <<queue, connected, pubsub, putCalls, lastPut, putLog, latePut>>
gathererVars == <<getLog, firstGet, pc, running, cancelRequested, check_empty, messages>>
consumerVars == <<processLog, returned, failed, aborted>>
sourceVars == <<sendLog, sinkPutCalls, memory, saveCalls, lastSend>>
closeVars == <<closed, closeCalls, lastClose>>
orchVars == <<sources, added, gathererSet, orchPc, todo, started>>
auxVars == <<foreignCount, closeVars, orchVars>>
indexVars == <<dedup, in_memory_index, hookLog, lastProcess>>
dedupMemVars == <<stamp, now, dmConnected, connectCalls, call, opsStarted>>
twitterVars == <<twitterRaised>>
githubVars == <<ghPc, ghRepos, ghFailed, ghCycles>>
httpVars == <<httpLog>>
recordVars == <<rec, rtPc, transit, putRet, decoded>>
ctorVars == <<life, ctorArg, sinkAttr, atexitHooks>>
faultVars == <<reachable, dmLast, dmClosed, dmCloseCalls>>
loggerVars == <<logObjects, logName, logVerbose, loggerLog>>
extraVars == <<recordVars, ctorVars, faultVars, loggerVars>>
componentVars == <<indexVars, dedupMemVars, twitterVars, githubVars, httpVars, extraVars>>
pipelineVars == <<queueVars, gathererVars, consumerVars, sourceVars, auxVars, arrived>>
vars == <<configVars, componentVars, pipelineVars>>
coreVars == <<configVars, indexVars, dedupMemVars, twitterVars, githubVars, httpVars,
              pipelineVars>>
recordOthers == <<coreVars, ctorVars, faultVars, loggerVars>>
ctorOthers == <<coreVars, recordVars, faultVars, loggerVars>>
faultOthers == <<configVars, indexVars, twitterVars, githubVars, httpVars, pipelineVars,
                 recordVars, ctorVars, loggerVars>>
loggerOthers == <<coreVars, recordVars, ctorVars, faultVars>>

\* MessageQueue.__init__, Gatherer.__init__, Consumer.__init__
Construction ==
    /\ backend \in Backends
    /\ batch_size \in 0..MaxBatch
    /\ queue = <<>>
    /\ connected = FALSE
    /\ pubsub = <<>>
    /\ putCalls = 0
    /\ lastPut = [arg |-> <<>>, ret |-> "none"]
    /\ putLog = <<>>
    /\ getLog = <<>>
    /\ firstGet = FALSE
    /\ latePut = FALSE
    /\ pc = "start"
    /\ running = TRUE
    /\ cancelRequested = FALSE
    /\ check_empty = FALSE
    /\ messages = <<>>
    /\ processLog = <<>>
    /\ returned = {}
    /\ failed = {}
    /\ aborted = {}
    /\ sendLog = <<>>
    /\ sinkPutCalls = <<>>
    /\ saveCalls = <<>>
    /\ lastSend = [id |-> "", known |-> FALSE, ret |-> "none", puts |-> 0,
                   enqueued |-> FALSE]
    /\ arrived = <<>>
    /\ foreignCount = 0
    /\ closed = FALSE
    /\ closeCalls = 0
    /\ lastClose = "none"
    /\ sources = <<>>
    /\ added = <<>>
    /\ gathererSet = FALSE
    /\ orchPc = "config"
    /\ todo = <<>>
    /\ started = {}

\* Consumer.__init__(dedup=d)
ConsumerInit(d) ==
    /\ dedup = d
    /\ in_memory_index = <<>>
    /\ hookLog = <<>>
    /\ lastProcess = [arg |-> <<>>, ret |-> "none"]

Callers == 1..MaxCallers
NoTtl == [given |-> FALSE, secs |-> 0]
IdleCall == [pc |-> "idle", op |-> "none", key |-> "", ttl |-> NoTtl, ts |-> 0,
             sawAbsent |-> FALSE]

\* DedupMemory.__init__, on a store that holds no key
DedupMemoryInit ==
    /\ stamp = [k \in {"1", "2"} |-> 0]
    /\ now = 0
    /\ dmConnected = FALSE
    /\ connectCalls = 0
    /\ call = [c \in Callers |-> IdleCall]
    /\ opsStarted = 0

\* TwitterSubscriber, GithubTrends and HttpService before their run
SourcesInit ==
    /\ twitterRaised = FALSE
    /\ ghPc = "poll"
    /\ ghRepos = <<>>
    /\ ghFailed = {}
    /\ ghCycles = 0
    /\ httpLog = <<>>

\* a record r that has been constructed and not yet encoded
RecordInit(r) ==
    /\ rec = r
    /\ rtPc = "new"
    /\ transit = <<>>
    /\ putRet = "none"
    /\ decoded = NoValue

\* no source constructor has been called
NoSourceBuilt ==
    /\ life = [o \in [cls : {"GithubTrends", "Arxiv"}, n : 1..MaxPerClass] |-> "absent"]
    /\ ctorArg = [o \in [cls : {"GithubTrends", "Arxiv"}, n : 1..MaxPerClass] |-> "unset"]
    /\ sinkAttr = [o \in [cls : {"GithubTrends", "Arxiv"}, n : 1..MaxPerClass] |-> "unset"]
    /\ atexitHooks = {}

\* a reachable store on which close() was never called
StoreUp ==
    /\ reachable = TRUE
    /\ dmLast = "none"
    /\ dmClosed = FALSE
    /\ dmCloseCalls = 0

\* class Logger as the import leaves it: _instance = None
NoLogger ==
    /\ logObjects = 0
    /\ logName = ""
    /\ logVerbose = FALSE
    /\ loggerLog = <<>>

\* the parts each studied on its own, before anything was done with them
ExtrasInit ==
    /\ RecordInit([t |-> "obj", v |-> <<>>])
    /\ NoSourceBuilt
    /\ StoreUp
    /\ NoLogger

\* the components outside the pipeline, as their constructors leave them
ComponentsInit ==
    /\ ConsumerInit(FALSE)
    /\ DedupMemoryInit
    /\ SourcesInit
    /\ ExtrasInit

Init == Construction /\ dedupAttached = FALSE /\ memory = {} /\ ComponentsInit

(* --------------------------- message queue ----------------------------- *)
\* variant of SimplePut: a queue of maxsize 1 that takes nothing while it is full
SimplePutBounded(q, message_json) == IF Len(q) >= 1 THEN q ELSE Append(q, message_json)

\* variant of SimplePut: the new message goes to the front
SimplePutFront(q, message_json) == <<message_json>> \o q

\* SimpleMessageQueue._put: asyncio.Queue.put on an unbounded queue
SimplePut(q, message_json) == Append(q, message_json)

\* str -> bytes on publish, bytes -> str in RedisMessageQueue.get
Utf8Encode(text) == [bytes |-> text]
Utf8Decode(data) == data.bytes

\* RedisMessageQueue._put: publish reaches the subscription of this object
RedisPublish(buf, message_json) == Append(buf, Utf8Encode(message_json))

\* variant of QueuePut: the message is enqueued before it is validated
QueuePutUnchecked(q, message_json) ==
    [ret |-> IF JsonLoads(message_json).ok THEN "True" ELSE "False",
     queue |-> SimplePut(q, message_json)]

\* MessageQueue.put on the in-process backend: [ret, queue]
QueuePut(q, message_json) ==
    IF ~JsonLoads(message_json).ok
    THEN [ret |-> "False", queue |-> q]
    ELSE [ret |-> "True", queue |-> SimplePut(q, message_json)]

\* MessageQueue.put on the pub/sub backend: [ret, pubsub]; self.redis
\* exists only once connect() has run
RedisQueuePut(buf, isConnected, message_json) ==
    IF ~JsonLoads(message_json).ok
    THEN [ret |-> "False", pubsub |-> buf]
    ELSE IF ~isConnected
    THEN [ret |-> "AttributeError", pubsub |-> buf]
    ELSE [ret |-> "True", pubsub |-> RedisPublish(buf, message_json)]

\* variant of SimpleGetContinue: fetch_count <= batch_size
SimpleGetContinueInclusive(q, fetch_count, n) == Len(q) > 0 /\ fetch_count <= n

\* loop condition of SimpleMessageQueue.get
SimpleGetContinue(q, fetch_count, n) == Len(q) > 0 /\ fetch_count < n

RECURSIVE SimpleGetLoop(_, _, _, _)
\* the while loop of SimpleMessageQueue.get: [messages, queue]
SimpleGetLoop(q, fetch_count, msgs, n) ==
    IF SimpleGetContinue(q, fetch_count, n)
    THEN SimpleGetLoop(Tail(q), fetch_count + 1, Append(msgs, Head(q)), n)
    ELSE [messages |-> msgs, queue |-> q]

\* SimpleMessageQueue.get(batch_size)
SimpleGet(q, n) == SimpleGetLoop(q, 0, <<>>, n)

\* variant of SimpleEmpty: empty() answers False whatever the queue holds
SimpleEmptyNever(q) == FALSE

\* variant of RedisEmpty: true while the subscription holds no unread payload
RedisEmptyPeek == pubsub = <<>>

\* SimpleMessageQueue.empty / RedisMessageQueue.empty
SimpleEmpty(q) == Len(q) = 0
RedisEmpty == FALSE
QueueEmpty == IF backend = "simple" THEN SimpleEmpty(queue) ELSE RedisEmpty

\* variant of RedisGetContinue: count <= batch_size
RedisGetContinueInclusive(count, n) == count <= n

\* loop condition of RedisMessageQueue.get
RedisGetContinue(count, n) == count < n

(* ------------------------------ gatherer ------------------------------- *)
\* Gatherer._filter: json.loads of every message
FilterOk(msgs) == \A i \in DOMAIN msgs : JsonLoads(msgs[i]).ok
Filter(msgs) == [i \in DOMAIN msgs |-> JsonLoads(msgs[i]).val]

\* process calls that were started and have not ended
InFlight == (1..Len(processLog)) \ (returned \cup failed \cup aborted)

\* places where Gatherer.run is suspended in an await (or not yet started),
\* which is where task.cancel() takes effect
CancelPoints == {"start", "sleep_empty", "poll", "poll_sleep", "sleep_zero", "process"}
\* places where the event loop runs other tasks and callbacks
Yielded == pc \in CancelPoints \cup {"done", "error"}

\* await self.message_queue.connect()
GathererConnect ==
    /\ pc = "start" /\ ~cancelRequested
    /\ connected' = (backend = "redis")
    /\ pc' = "top"
    /\ UNCHANGED <<configVars, componentVars, queue, pubsub, putCalls, lastPut, putLog, latePut,
                   getLog, firstGet, running, cancelRequested, check_empty, messages,
                   consumerVars, sourceVars, auxVars, arrived>>

\* top of `while True`: check_empty = await self.message_queue.empty()
GathererCheckEmpty ==
    /\ pc = "top"
    /\ check_empty' = QueueEmpty
    /\ pc' = IF QueueEmpty THEN "sleep_empty" ELSE "get"
    /\ UNCHANGED <<configVars, componentVars, queueVars, getLog, firstGet, running, cancelRequested,
                   messages, consumerVars, sourceVars, auxVars, arrived>>

\* variant of GathererWake: check_empty is not refreshed after the sleep
GathererWakeStale ==
    /\ pc = "sleep_empty" /\ ~cancelRequested
    /\ check_empty' = check_empty
    /\ pc' = IF ~running THEN "done"
             ELSE IF check_empty THEN "sleep_empty" ELSE "get"
    /\ UNCHANGED <<configVars, componentVars, queueVars, getLog, firstGet, running, cancelRequested,
                   messages, consumerVars, sourceVars, auxVars, arrived>>

\* end of asyncio.sleep(fetch_interval) inside `while check_empty`
GathererWake ==
    /\ pc = "sleep_empty" /\ ~cancelRequested
    /\ check_empty' = QueueEmpty
    /\ pc' = IF ~running THEN "done"
             ELSE IF QueueEmpty THEN "sleep_empty" ELSE "get"
    /\ UNCHANGED <<configVars, componentVars, queueVars, getLog, firstGet, running, cancelRequested,
                   messages, consumerVars, sourceVars, auxVars, arrived>>

\* messages = await self.message_queue.get(batch_size=self.batch_size)
GathererGet ==
    /\ pc = "get"
    /\ firstGet' = TRUE
    /\ IF backend = "simple"
       THEN LET r == SimpleGet(queue, batch_size) IN
            /\ messages' = r.messages
            /\ queue' = r.queue
            /\ getLog' = getLog \o r.messages
            /\ pc' = "got"
       ELSE /\ messages' = <<>>
            /\ pc' = IF RedisGetContinue(0, batch_size) THEN "poll" ELSE "got"
            /\ UNCHANGED <<queue, getLog>>
    /\ UNCHANGED <<configVars, componentVars, connected, pubsub, putCalls, lastPut, putLog, latePut,
                   running, cancelRequested, check_empty, consumerVars, sourceVars,
                   auxVars, arrived>>

\* variant of RedisPoll: an empty poll ends get with what was collected so far
RedisPollBreak ==
    /\ pc = "poll" /\ ~cancelRequested
    /\ IF pubsub = <<>>
       THEN /\ pc' = "got"
            /\ getLog' = getLog \o messages
            /\ UNCHANGED <<pubsub, messages>>
       ELSE LET got == Append(messages, Utf8Decode(Head(pubsub))) IN
            /\ pubsub' = Tail(pubsub)
            /\ messages' = got
            /\ IF RedisGetContinue(Len(got), batch_size)
               THEN pc' = "poll" /\ getLog' = getLog
               ELSE pc' = "got" /\ getLog' = getLog \o got
    /\ UNCHANGED <<configVars, componentVars, queue, connected, putCalls, lastPut, putLog, latePut,
                   firstGet, running, cancelRequested, check_empty, consumerVars,
                   sourceVars, auxVars, arrived>>

\* RedisMessageQueue.get: msg = await self.pubsub.get_message()
RedisPoll ==
    /\ pc = "poll" /\ ~cancelRequested
    /\ IF pubsub = <<>>
       THEN /\ pc' = "poll_sleep"
            /\ UNCHANGED <<pubsub, messages, getLog>>
       ELSE LET got == Append(messages, Utf8Decode(Head(pubsub))) IN
            /\ pubsub' = Tail(pubsub)
            /\ messages' = got
            /\ IF RedisGetContinue(Len(got), batch_size)
               THEN pc' = "poll" /\ getLog' = getLog
               ELSE pc' = "got" /\ getLog' = getLog \o got
    /\ UNCHANGED <<configVars, componentVars, queue, connected, putCalls, lastPut, putLog, latePut,
                   firstGet, running, cancelRequested, check_empty, consumerVars,
                   sourceVars, auxVars, arrived>>

\* RedisMessageQueue.get: end of asyncio.sleep(0.1), then `continue`
RedisPollWake ==
    /\ pc = "poll_sleep" /\ ~cancelRequested
    /\ pc' = "poll"
    /\ UNCHANGED <<configVars, componentVars, queueVars, getLog, firstGet, running, cancelRequested,
                   check_empty, messages, consumerVars, sourceVars, auxVars, arrived>>

\* variant of GathererDispatch: a batch shorter than batch_size is treated
\* like a zero-length one
GathererDispatchFullOnly ==
    /\ pc = "got"
    /\ IF Len(messages) < batch_size \/ Len(messages) = 0
       THEN pc' = "sleep_zero" /\ UNCHANGED <<messages, processLog>>
       ELSE IF FilterOk(messages)
       THEN /\ messages' = messages
            /\ processLog' = Append(processLog, Filter(messages))
            /\ pc' = "process"
       ELSE pc' = "error" /\ UNCHANGED <<messages, processLog>>
    /\ UNCHANGED <<configVars, componentVars, queueVars, getLog, firstGet, running, cancelRequested,
                   check_empty, returned, failed, aborted, sourceVars, auxVars, arrived>>

\* variant of GathererDispatch: consumer.process is started as a task of its
\* own and not awaited
GathererDispatchNoAwait ==
    /\ pc = "got"
    /\ IF Len(messages) = 0
       THEN pc' = "sleep_zero" /\ UNCHANGED <<messages, processLog>>
       ELSE IF FilterOk(messages)
       THEN /\ messages' = messages
            /\ processLog' = Append(processLog, Filter(messages))
            /\ pc' = "top"
       ELSE pc' = "error" /\ UNCHANGED <<messages, processLog>>
    /\ UNCHANGED <<configVars, componentVars, queueVars, getLog, firstGet, running, cancelRequested,
                   check_empty, returned, failed, aborted, sourceVars, auxVars, arrived>>

\* variant of GathererDispatch: no zero-length test before the consumer call
GathererDispatchNoZeroCheck ==
    /\ pc = "got"
    /\ IF FilterOk(messages)
       THEN /\ messages' = messages
            /\ processLog' = Append(processLog, Filter(messages))
            /\ pc' = "process"
       ELSE pc' = "error" /\ UNCHANGED <<messages, processLog>>
    /\ UNCHANGED <<configVars, componentVars, queueVars, getLog, firstGet, running, cancelRequested,
                   check_empty, returned, failed, aborted, sourceVars, auxVars, arrived>>

\* variant of GathererDispatch: _filter leaves out the entries json.loads rejects
GathererDispatchSkipBad ==
    /\ pc = "got"
    /\ IF Len(messages) = 0
       THEN pc' = "sleep_zero" /\ UNCHANGED <<messages, processLog>>
       ELSE /\ messages' = messages
            /\ processLog' = Append(processLog,
                                    Filter(SelectSeq(messages,
                                                     LAMBDA m : JsonLoads(m).ok)))
            /\ pc' = "process"
    /\ UNCHANGED <<configVars, componentVars, queueVars, getLog, firstGet, running, cancelRequested,
                   check_empty, returned, failed, aborted, sourceVars, auxVars, arrived>>

\* after get: the zero-length branch, or _filter and the call of
\* consumer.process, which Gatherer.run awaits
GathererDispatch ==
    /\ pc = "got"
    /\ IF Len(messages) = 0
       THEN pc' = "sleep_zero" /\ UNCHANGED <<messages, processLog>>
       ELSE IF FilterOk(messages)
       THEN /\ messages' = messages
            /\ processLog' = Append(processLog, Filter(messages))
            /\ pc' = "process"
       ELSE pc' = "error" /\ UNCHANGED <<messages, processLog>>
    /\ UNCHANGED <<configVars, componentVars, queueVars, getLog, firstGet, running, cancelRequested,
                   check_empty, returned, failed, aborted, sourceVars, auxVars, arrived>>

\* end of asyncio.sleep(fetch_interval) in the zero-length branch, `continue`
GathererRetry ==
    /\ pc = "sleep_zero" /\ ~cancelRequested
    /\ pc' = "top"
    /\ UNCHANGED <<configVars, componentVars, queueVars, getLog, firstGet, running, cancelRequested,
                   check_empty, messages, consumerVars, sourceVars, auxVars, arrived>>

\* the gatherer's task is resumed with CancelledError, which Gatherer.run
\* catches ("Gatherer canceled."); a process call it was awaiting ends there
GathererCancelled ==
    /\ cancelRequested /\ pc \in CancelPoints
    /\ pc' = "done"
    /\ aborted' = IF pc = "process" THEN aborted \cup InFlight ELSE aborted
    /\ UNCHANGED <<configVars, componentVars, queueVars, getLog, firstGet, running, cancelRequested,
                   check_empty, messages, processLog, returned, failed, sourceVars,
                   auxVars, arrived>>

\* the Redis client raises in message_queue.connect() or in
\* pubsub.get_message(); Gatherer.run catches only CancelledError
TransportError ==
    /\ backend = "redis" /\ pc \in {"start", "poll"} /\ ~cancelRequested
    /\ pc' = "error"
    /\ UNCHANGED <<configVars, componentVars, queueVars, getLog, firstGet, running, cancelRequested,
                   check_empty, messages, consumerVars, sourceVars, auxVars, arrived>>

(* ------------------------------ consumer ------------------------------- *)
\* variant of ConsumerRaise: Gatherer.run catches the consumer's error and
\* goes on with its loop
ConsumerRaiseSwallowed ==
    \E i \in InFlight :
        /\ Yielded
        /\ failed' = failed \cup {i}
        /\ IF pc = "process" /\ i = Len(processLog)
           THEN ~cancelRequested /\ pc' = "top"
           ELSE pc' = pc
        /\ UNCHANGED <<configVars, componentVars, queueVars, getLog, firstGet, running,
                       cancelRequested, check_empty, messages, processLog, returned,
                       aborted, sourceVars, auxVars, arrived>>

\* a consumer.process call returns; the gatherer awaiting it goes on to the
\* top of its loop in the same step
ConsumerReturn ==
    \E i \in InFlight :
        /\ Yielded
        /\ returned' = returned \cup {i}
        /\ IF pc = "process" /\ i = Len(processLog)
           THEN ~cancelRequested /\ pc' = "top"
           ELSE pc' = pc
        /\ UNCHANGED <<configVars, componentVars, queueVars, getLog, firstGet, running,
                       cancelRequested, check_empty, messages, processLog, failed,
                       aborted, sourceVars, auxVars, arrived>>

\* a consumer.process call raises; Gatherer.run catches only CancelledError
ConsumerRaise ==
    \E i \in InFlight :
        /\ Yielded
        /\ failed' = failed \cup {i}
        /\ IF pc = "process" /\ i = Len(processLog)
           THEN ~cancelRequested /\ pc' = "error"
           ELSE pc' = pc
        /\ UNCHANGED <<configVars, componentVars, queueVars, getLog, firstGet, running,
                       cancelRequested, check_empty, messages, processLog, returned,
                       aborted, sourceVars, auxVars, arrived>>

(* ------------------------------ producers ------------------------------ *)
\* a producer task awaits message_queue.put(s)
Put(s) ==
    /\ Yielded /\ putCalls + foreignCount < MaxPuts
    /\ putCalls' = putCalls + 1
    /\ LET ret == IF backend = "simple"
                  THEN QueuePut(queue, s).ret
                  ELSE RedisQueuePut(pubsub, connected, s).ret IN
       /\ lastPut' = [arg |-> s, ret |-> ret]
       /\ putLog' = IF ret = "True" THEN Append(putLog, s) ELSE putLog
       /\ latePut' = (latePut \/ (ret = "True" /\ firstGet))
    /\ IF backend = "simple"
       THEN queue' = QueuePut(queue, s).queue /\ UNCHANGED <<pubsub, arrived>>
       ELSE /\ queue' = queue
            /\ pubsub' = IF closed THEN pubsub
                         ELSE RedisQueuePut(pubsub, connected, s).pubsub
            /\ arrived' = IF ~closed /\ RedisQueuePut(pubsub, connected, s).ret = "True"
                          THEN Append(arrived, s) ELSE arrived
    /\ UNCHANGED <<configVars, componentVars, connected, gathererVars, consumerVars, sourceVars,
                   auxVars>>

\* a Redis client other than MessageQueue.put publishes a payload on the channel;
\* RedisMessageQueue.get hands on whatever the subscription receives
ForeignPublish(s) ==
    /\ Yielded /\ foreignCount < MaxForeign /\ putCalls + foreignCount < MaxPuts
    /\ backend = "redis" /\ connected /\ ~closed
    /\ foreignCount' = foreignCount + 1
    /\ pubsub' = RedisPublish(pubsub, s)
    /\ arrived' = Append(arrived, s)
    /\ UNCHANGED <<configVars, componentVars, queue, connected, putCalls, lastPut, putLog, latePut,
                   gathererVars, consumerVars, sourceVars, closeVars, orchVars>>

(* -------------------------------- close -------------------------------- *)
\* await message_queue.close(). MessageQueue and SimpleMessageQueue define no
\* close method; RedisMessageQueue.close reads self.pubsub and self.redis, which
\* only connect() assigns
QueueClose(b, isConnected, isClosed) ==
    IF b = "simple" THEN [ret |-> "AttributeError", closed |-> isClosed]
    ELSE IF ~isConnected THEN [ret |-> "AttributeError", closed |-> isClosed]
    ELSE [ret |-> "None", closed |-> TRUE]

\* the owner of the queue closes it while no gatherer is using it
Close ==
    /\ pc \in {"start", "done", "error"} /\ closeCalls < MaxCloses
    /\ closeCalls' = closeCalls + 1
    /\ lastClose' = QueueClose(backend, connected, closed).ret
    /\ closed' = QueueClose(backend, connected, closed).closed
    /\ UNCHANGED <<configVars, componentVars, queueVars, gathererVars, consumerVars, sourceVars,
                   foreignCount, orchVars, arrived>>

(* ------------------------------ shutdown ------------------------------- *)
\* gatherer._running = False alone
StopFlag ==
    /\ Yielded /\ pc \notin {"done", "error"} /\ running
    /\ running' = FALSE
    /\ UNCHANGED <<configVars, componentVars, queueVars, getLog, firstGet, pc, cancelRequested,
                   check_empty, messages, consumerVars, sourceVars, auxVars, arrived>>

\* the termination-signal handler: the flag and task.cancel() together
Signal ==
    /\ Yielded /\ pc \notin {"done", "error"} /\ ~cancelRequested
    /\ running' = FALSE
    /\ cancelRequested' = TRUE
    /\ UNCHANGED <<configVars, componentVars, queueVars, getLog, firstGet, pc, check_empty,
                   messages, consumerVars, sourceVars, auxVars, arrived>>

(* ------------------------------- source ------------------------------- *)
Ids == {"1", "2"}
Contents == {"a", "b"}

\* entity.Information(type, id, datetime_str, uri, content).data
Information(id, content) ==
    [t |-> "obj",
     v |-> << <<"type", [t |-> "str", v |-> "x"]>>,
              <<"id", [t |-> "str", v |-> id]>>,
              <<"datetime", [t |-> "str", v |-> "now"]>>,
              <<"uri", [t |-> "str", v |-> ""]>>,
              <<"content", [t |-> "str", v |-> content]>> >>]
Informations == {Information(id, c) : id \in Ids, c \in Contents}

\* Information.get_id
GetId(info) == info.v[2][2].v
\* variant of Encode: only the five named fields are written
EncodeNamedOnly(info) == JsonDumps([t |-> "obj", v |-> SubSeq(info.v, 1, 5)])

\* Information.encode
Encode(info) == JsonDumps(info)

\* a string that holds the code point U+00E9
NonAscii == "U+00E9"
\* keyword names a caller can add: datetime is not a parameter name
\* (the parameter is datetime_str), so it lands in **kwargs
ExtraKeys == {"datetime", "lang", "stars"}
ExtraValues == {[t |-> "str", v |-> "a"], [t |-> "str", v |-> NonAscii],
                [t |-> "num", v |-> "1"]}
\* **kwargs: distinct names, in the order they were given
Kwargs ==
    UNION {{kw \in [1..n -> ExtraKeys \X ExtraValues] :
                \A i, j \in 1..n : i # j => kw[i][1] # kw[j][1]}
           : n \in 0..MaxExtra}

RECURSIVE DictUpdate(_, _)
\* {..., **kwargs}: the entries of kwargs are assigned one after the other
DictUpdate(pairs, kw) ==
    IF kw = <<>> THEN pairs
    ELSE DictUpdate(DictSet(pairs, kw[1][1], kw[1][2]), Tail(kw))

\* entity.Information(type, id, datetime_str, uri, content, **kwargs).data
InformationKw(id, content, kw) ==
    [t |-> "obj", v |-> DictUpdate(Information(id, content).v, kw)]
Records == {InformationKw(id, c, kw) :
                id \in Ids, c \in Contents \cup {NonAscii}, kw \in Kwargs}

\* record.encode()
RecordEncode ==
    /\ rtPc = "new"
    /\ transit' = <<Encode(rec)>>
    /\ rtPc' = "encoded"
    /\ UNCHANGED <<recordOthers, rec, putRet, decoded>>

\* await message_queue.put(text) on an empty queue of either backend
RecordPut ==
    /\ rtPc = "encoded"
    /\ IF backend = "simple"
       THEN LET r == QueuePut(<<>>, transit[1]) IN
            putRet' = r.ret /\ transit' = r.queue
       ELSE LET r == RedisQueuePut(<<>>, TRUE, transit[1]) IN
            putRet' = r.ret /\ transit' = [i \in DOMAIN r.pubsub |-> Utf8Decode(r.pubsub[i])]
    /\ rtPc' = "put"
    /\ UNCHANGED <<recordOthers, rec, decoded>>

\* the gatherer takes the message and runs _filter on its batch of one
RecordFilter ==
    /\ rtPc = "put" /\ transit # <<>>
    /\ IF FilterOk(transit)
       THEN decoded' = Filter(transit)[1] /\ rtPc' = "parsed"
       ELSE decoded' = decoded /\ rtPc' = "error"
    /\ UNCHANGED <<recordOthers, rec, transit, putRet>>

\* BaseSource._send_data: its one statement is self.sink.put(information.encode()),
\* whatever keyword arguments (dedup_memory among them) the constructor was given
SendDataPuts(info, attached, sent) == <<Encode(info)>>

\* DedupMemory.exists(key) on the keys the store holds
Exists(mem, key) == key \in mem

\* the keys BaseSource._send_data passes to dedup_memory.check_and_save: the
\* method never touches a dedup memory
SendDataSaves(info, attached, mem) == <<>>

\* what BaseSource._send_data returns: the body has no return statement
SendDataReturn(info, attached, mem) == "None"

\* the source's side of the state, as one value
SourceState ==
    [sendLog |-> sendLog, sinkPutCalls |-> sinkPutCalls, saveCalls |-> saveCalls,
     memory |-> memory, lastSend |-> lastSend]

\* one _send_data(info) call; put is a coroutine function and the coroutine
\* object the call makes is never awaited, so its body does not run and the
\* call enqueues nothing
SendStep(s, info, attached) ==
    [sendLog |-> Append(s.sendLog, info),
     sinkPutCalls |-> s.sinkPutCalls \o SendDataPuts(info, attached, s.sendLog),
     saveCalls |-> s.saveCalls \o SendDataSaves(info, attached, s.memory),
     memory |-> s.memory \cup {SendDataSaves(info, attached, s.memory)[i] :
                                  i \in DOMAIN SendDataSaves(info, attached, s.memory)},
     lastSend |-> [id |-> GetId(info),
                   known |-> Exists(s.memory, GetId(info)),
                   ret |-> SendDataReturn(info, attached, s.memory),
                   puts |-> Len(SendDataPuts(info, attached, s.sendLog)),
                   enqueued |-> FALSE]]

\* _send_data called for every record of a list, first to last
RECURSIVE SendAll(_, _, _)
SendAll(s, infos, attached) ==
    IF infos = <<>> THEN s
    ELSE SendAll(SendStep(s, Head(infos), attached), Tail(infos), attached)

SetSource(s) ==
    /\ sendLog' = s.sendLog
    /\ sinkPutCalls' = s.sinkPutCalls
    /\ saveCalls' = s.saveCalls
    /\ memory' = s.memory
    /\ lastSend' = s.lastSend

\* what `await x` does with the value a _send_data call returned
Await(ret) == IF ret = "None" THEN "TypeError" ELSE "ok"

sourceOthers == <<configVars, indexVars, dedupMemVars, extraVars, queueVars, gathererVars,
                  consumerVars, auxVars, arrived>>

\* a source calls _send_data(info)
SendData(info) ==
    /\ Len(sendLog) < MaxSends
    /\ SetSource(SendStep(SourceState, info, dedupAttached))
    /\ UNCHANGED <<sourceOthers, twitterVars, githubVars, httpVars>>

(* ------------------------------- twitter ------------------------------- *)
Flushes == UNION {[1..n -> Informations] : n \in 1..MaxFlush}

\* TwitterSubscriber.run with the buffered batch full: the argument list of
\* asyncio.gather is built first, one _send_data call per tweet in buffer
\* order, and gather is then handed what the calls returned
TwitterFlush(batch) ==
    /\ ~twitterRaised /\ Len(sendLog) + Len(batch) <= MaxSends
    /\ SetSource(SendAll(SourceState, batch, dedupAttached))
    /\ twitterRaised' = (Await(SendAll(SourceState, batch, dedupAttached).lastSend.ret)
                            = "TypeError")
    /\ UNCHANGED <<sourceOthers, githubVars, httpVars>>

(* ------------------------------- github -------------------------------- *)
Statuses == {200, 404}
Repos == [id : Ids, status : Statuses, readme : Contents]
RepoLists == UNION {[1..n -> Repos] : n \in 0..MaxRepos}

\* GithubTrends.run: repos = await self.get_trending_repos(session)
GhGetTrending(repos) ==
    /\ ghPc = "poll" /\ ghCycles < MaxCycles
    /\ ghCycles' = ghCycles + 1
    /\ ghRepos' = repos
    /\ ghPc' = "loop"
    /\ UNCHANGED <<sourceOthers, sourceVars, twitterVars, httpVars, ghFailed>>

\* one round of `for repo in repos`: process_repo, whose get_readme raises on
\* a status other than 200, then `res = await self._send_data(github_event)`
GhProcessRepo ==
    /\ ghPc = "loop" /\ ghRepos # <<>> /\ Len(sendLog) < MaxSends
    /\ LET repo == Head(ghRepos)
           event == Information(repo.id, repo.readme)
           s == SendStep(SourceState, event, dedupAttached) IN
       IF repo.status # 200
       THEN /\ ghFailed' = ghFailed \cup {repo.id}
            /\ ghPc' = "raised"
            /\ UNCHANGED <<ghRepos, sourceVars>>
       ELSE /\ SetSource(s)
            /\ ghFailed' = ghFailed
            /\ IF Await(s.lastSend.ret) = "TypeError"
               THEN ghPc' = "raised" /\ ghRepos' = ghRepos
               ELSE ghPc' = "loop" /\ ghRepos' = Tail(ghRepos)
    /\ UNCHANGED <<sourceOthers, twitterVars, httpVars, ghCycles>>

\* the list is exhausted: await asyncio.sleep(self.check_interval), next cycle
GhSleep ==
    /\ ghPc = "loop" /\ ghRepos = <<>>
    /\ ghPc' = "poll"
    /\ UNCHANGED <<sourceOthers, sourceVars, twitterVars, httpVars, ghRepos, ghFailed,
                   ghCycles>>

(* -------------------------------- http --------------------------------- *)
ContentTypes == {"github-repo", "application/pdf", "html", "blog", ""}
\* a POST to /api/v1/url: whether the body has a url, whether the url holds
\* "arxiv.org/abs/", the content_type, whether the fetch of the url succeeds and
\* whether the page has the elements _parse_arxiv looks for
Requests ==
    [hasUrl : BOOLEAN, arxiv : BOOLEAN, content_type : ContentTypes,
     fetchOk : BOOLEAN, parseOk : BOOLEAN, id : Ids]

\* HttpService._process up to `if doc:`: the record built, or why there is none
Doc(req) ==
    IF ~req.fetchOk THEN "error"
    ELSE IF req.content_type = "github-repo" THEN "doc"
    ELSE IF req.arxiv THEN (IF req.parseOk THEN "doc" ELSE "error")
    ELSE IF req.content_type = "application/pdf" THEN "none"
    ELSE IF req.content_type \in {"html", "blog"} THEN "doc"
    ELSE "unknown content type"

\* HttpService.check_url for one request
HttpRequest(req) ==
    /\ Len(httpLog) < MaxRequests /\ Len(sendLog) < MaxSends
    /\ LET s == SendStep(SourceState, Information(req.id, "a"), dedupAttached) IN
       IF ~req.hasUrl
       THEN /\ httpLog' = Append(httpLog, [answer |-> "400", sends |-> 0])
            /\ UNCHANGED sourceVars
       ELSE IF Doc(req) = "doc"
       THEN /\ SetSource(s)
            /\ httpLog' = Append(httpLog,
                                 [answer |-> IF Await(s.lastSend.ret) = "TypeError"
                                             THEN "error" ELSE "ok",
                                  sends |-> 1])
       ELSE /\ httpLog' = Append(httpLog,
                                 [answer |-> IF Doc(req) = "none" THEN "ok" ELSE Doc(req),
                                  sends |-> 0])
            /\ UNCHANGED sourceVars
    /\ UNCHANGED <<sourceOthers, twitterVars, githubVars>>

(* ----------------------------- orchestrator --------------------------- *)
SourceClasses == {"GithubTrends", "Arxiv"}
\* source objects: instances of the BaseSource subclasses
SourceObjs == [cls : SourceClasses, n : 1..MaxPerClass]

\* BaseSource.__str__
Str(source) == source.cls

Range(f) == {f[i] : i \in DOMAIN f}
\* dict.values(), in insertion order
Values(d) == [i \in DOMAIN d |-> d[i][2]]

\* Orchestrator.add_source: self.sources[str(source)] = source
AddSource(source) ==
    /\ orchPc = "config" /\ Len(added) < MaxAdds /\ source \notin Range(added)
    /\ sources' = DictSet(sources, Str(source), source)
    /\ added' = Append(added, source)
    /\ UNCHANGED <<configVars, componentVars, queueVars, gathererVars, consumerVars, sourceVars,
                   foreignCount, closeVars, gathererSet, orchPc, todo, started, arrived>>

\* Orchestrator.set_gatherer
SetGatherer ==
    /\ orchPc = "config" /\ ~gathererSet
    /\ gathererSet' = TRUE
    /\ UNCHANGED <<configVars, componentVars, queueVars, gathererVars, consumerVars, sourceVars,
                   foreignCount, closeVars, sources, added, orchPc, todo, started,
                   arrived>>

\* Orchestrator.run is entered: the for loop takes self.sources.values()
OrchRun ==
    /\ orchPc = "config"
    /\ orchPc' = "loop"
    /\ todo' = Values(sources)
    /\ UNCHANGED <<configVars, componentVars, queueVars, gathererVars, consumerVars, sourceVars,
                   foreignCount, closeVars, sources, added, gathererSet, started,
                   arrived>>

\* one iteration of `for source in self.sources.values(): source.start()`
OrchStartSource ==
    /\ orchPc = "loop" /\ todo # <<>>
    /\ started' = started \cup {Head(todo)}
    /\ todo' = Tail(todo)
    /\ UNCHANGED <<configVars, componentVars, queueVars, gathererVars, consumerVars, sourceVars,
                   foreignCount, closeVars, sources, added, gathererSet, orchPc,
                   arrived>>

\* self.gatherer.start(): __init__ assigns no gatherer attribute, and the
\* Gatherer class defines neither start nor join, so the attribute lookup raises
\* AttributeError whether or not set_gatherer was called
GathererStart(isSet) == "raised"

\* Orchestrator.run after the loop: self.gatherer.start()
OrchStartGatherer ==
    /\ orchPc = "loop" /\ todo = <<>>
    /\ orchPc' = GathererStart(gathererSet)
    /\ UNCHANGED <<configVars, componentVars, queueVars, gathererVars, consumerVars, sourceVars,
                   foreignCount, closeVars, sources, added, gathererSet, todo, started,
                   arrived>>

\* variant of BaseSourceInit: the sink is stored and the hook registered
\* whatever the sink is
BaseSourceInitUnchecked(sink) ==
    [raised |-> FALSE, sink |-> sink, hook |-> TRUE]

\* BaseSource.__init__(sink): [raised, sink, hook]; `if not sink` raises
\* ValueError before self.sink is assigned and atexit.register is called
BaseSourceInit(sink) ==
    IF sink = "None"
    THEN [raised |-> TRUE, sink |-> "unset", hook |-> FALSE]
    ELSE [raised |-> FALSE, sink |-> sink, hook |-> TRUE]

\* a subclass constructor is called; its first statement is BaseSource.__init__
Construct(o, sink) ==
    /\ life[o] = "absent"
    /\ LET r == BaseSourceInit(sink) IN
        /\ life' = [life EXCEPT ![o] = IF r.raised THEN "raised" ELSE "built"]
        /\ sinkAttr' = [sinkAttr EXCEPT ![o] = r.sink]
        /\ atexitHooks' = IF r.hook THEN atexitHooks \cup {o} ELSE atexitHooks
    /\ ctorArg' = [ctorArg EXCEPT ![o] = sink]
    /\ UNCHANGED ctorOthers

\* start() / run() of a source object the constructor returned
SourceStart(o) ==
    /\ life[o] = "built"
    /\ life' = [life EXCEPT ![o] = "running"]
    /\ UNCHANGED <<ctorOthers, ctorArg, sinkAttr, atexitHooks>>

(* --------------------------- consumer dedup ---------------------------- *)
\* messages a consumer is handed: json.loads results, with and without an "id"
Msgs ==
    {Information("1", "a"), Information("1", "b"), Information("2", "a"),
     JsonLoads(<<P("{"), S("a"), P(":"), N("1"), P("}")>>).val}

\* m["id"] on a json.loads result
HasId(m) == m.t = "obj" /\ \E i \in DOMAIN m.v : m.v[i][1] = "id"
IdOf(m) == LET i == CHOOSE i \in DOMAIN m.v : m.v[i][1] = "id" IN m.v[i][2].v
\* the exception m["id"] raises when there is no such item
IdError(m) == IF m.t = "obj" THEN "KeyError" ELSE "TypeError"

\* key in self.in_memory_index
InIndex(index, id) == \E i \in DOMAIN index : index[i][1] = id
IndexKeys(index) == {index[i][1] : i \in DOMAIN index}

\* dict.update({m["id"]: m for m in msgs})
RECURSIVE IndexUpdate(_, _)
IndexUpdate(index, msgs) ==
    IF msgs = <<>> THEN index
    ELSE IndexUpdate(DictSet(index, IdOf(Head(msgs)), Head(msgs)), Tail(msgs))

\* variant of Dedup: the index keeps only the ids of the latest batch
DedupForgetful(index, msgs) ==
    IF \E i \in DOMAIN msgs : ~HasId(msgs[i])
    THEN [ret |-> IdError(msgs[CHOOSE i \in DOMAIN msgs :
                                  ~HasId(msgs[i]) /\ \A j \in 1..(i - 1) : HasId(msgs[j])]),
          messages |-> <<>>, index |-> index]
    ELSE LET deduped == SelectSeq(msgs, LAMBDA m : ~InIndex(index, IdOf(m))) IN
         [ret |-> "None", messages |-> deduped, index |-> IndexUpdate(<<>>, deduped)]

\* Consumer._dedup: the list comprehension tests every message against the
\* index as it stood at the call, then the index takes the kept messages
Dedup(index, msgs) ==
    IF \E i \in DOMAIN msgs : ~HasId(msgs[i])
    THEN [ret |-> IdError(msgs[CHOOSE i \in DOMAIN msgs :
                                  ~HasId(msgs[i]) /\ \A j \in 1..(i - 1) : HasId(msgs[j])]),
          messages |-> <<>>, index |-> index]
    ELSE LET deduped == SelectSeq(msgs, LAMBDA m : ~InIndex(index, IdOf(m))) IN
         [ret |-> "None", messages |-> deduped, index |-> IndexUpdate(index, deduped)]

Batches == UNION {[1..n -> Msgs] : n \in 0..MaxIndexBatch}

\* await consumer.process(msgs); the _process hook records what it is given.
\* A call that raised ends the gatherer, so no call follows it
Process(msgs) ==
    /\ Len(hookLog) < MaxProcessCalls /\ lastProcess.ret \in {"none", "None"}
    /\ IF dedup
       THEN LET r == Dedup(in_memory_index, msgs) IN
            /\ in_memory_index' = r.index
            /\ lastProcess' = [arg |-> msgs, ret |-> r.ret]
            /\ hookLog' = IF r.ret = "None" THEN Append(hookLog, r.messages) ELSE hookLog
       ELSE /\ in_memory_index' = in_memory_index
            /\ lastProcess' = [arg |-> msgs, ret |-> "None"]
            /\ hookLog' = Append(hookLog, msgs)
    /\ UNCHANGED <<configVars, pipelineVars, dedup, dedupMemVars, twitterVars, githubVars,
                   httpVars, extraVars>>

(* ---------------------------- dedup memory ----------------------------- *)
Ops == {"exists", "get", "delete", "check_and_save", "save_or_overwrite"}
Ttls == {NoTtl, [given |-> TRUE, secs |-> 1]}

\* variant of NotExpired: a timestamp exactly ttl old still counts as fresh
NotExpiredInclusive(existing, timestamp, ttl) == existing + ttl.secs >= timestamp

\* save_or_overwrite: int(existing_timestamp) > timestamp - ttl
NotExpired(existing, timestamp, ttl) == existing + ttl.secs > timestamp

\* where an operation stands once `if not self.connected` is behind it:
\* save_or_overwrite has taken the timestamp and awaits its first command
Entered(op, ttl) ==
    IF op = "save_or_overwrite"
    THEN IF ttl.given THEN "ttl_get" ELSE "set"
    ELSE "run"

dmOthers == <<configVars, indexVars, twitterVars, githubVars, httpVars, extraVars, queueVars,
              gathererVars, consumerVars, sendLog, sinkPutCalls, saveCalls, lastSend,
              auxVars, arrived>>

\* a caller starts an operation: `if not self.connected: await self.connect()`
DmCall(c, op, key, ttl) ==
    /\ call[c].pc = "idle" /\ opsStarted < MaxOps
    /\ opsStarted' = opsStarted + 1
    /\ connectCalls' = IF dmConnected THEN connectCalls ELSE connectCalls + 1
    /\ call' = [call EXCEPT ![c] =
                   [pc |-> IF dmConnected THEN Entered(op, ttl) ELSE "connecting",
                    op |-> op, key |-> key, ttl |-> ttl,
                    ts |-> IF op = "save_or_overwrite" THEN now ELSE 0,
                    sawAbsent |-> FALSE]]
    /\ UNCHANGED <<dmOthers, memory, stamp, now, dmConnected>>

\* the await of connect() is over: self.connected = True
DmConnected(c) ==
    /\ call[c].pc = "connecting"
    /\ dmConnected' = TRUE
    /\ call' = [call EXCEPT ![c].pc = Entered(call[c].op, call[c].ttl),
                            ![c].ts = IF call[c].op = "save_or_overwrite"
                                      THEN now ELSE 0]
    /\ UNCHANGED <<dmOthers, memory, stamp, now, connectCalls, opsStarted>>

\* check_and_save after `await self.exists(key)`: return when the key exists,
\* otherwise save_or_overwrite(key, ttl) up to its first command
CheckAndSaveNext(present, ttl) ==
    IF present THEN "idle"
    ELSE IF ttl.given THEN "ttl_get" ELSE "set"

\* the first Redis command of exists / get / delete / check_and_save is served
DmRun(c) ==
    /\ call[c].pc = "run"
    /\ memory' = IF call[c].op = "delete" THEN memory \ {call[c].key} ELSE memory
    /\ call' = IF call[c].op = "check_and_save"
               THEN IF CheckAndSaveNext(Exists(memory, call[c].key), call[c].ttl) = "idle"
                    THEN [call EXCEPT ![c] = IdleCall]
                    ELSE [call EXCEPT ![c].pc = CheckAndSaveNext(Exists(memory,
                                                                        call[c].key),
                                                                 call[c].ttl),
                                      ![c].sawAbsent = ~Exists(memory, call[c].key),
                                      ![c].ts = now]
               ELSE [call EXCEPT ![c] = IdleCall]
    /\ UNCHANGED <<dmOthers, stamp, now, dmConnected, connectCalls, opsStarted>>

\* save_or_overwrite with a ttl: existing_timestamp = await self.get(key)
DmTtlGet(c) ==
    /\ call[c].pc = "ttl_get"
    /\ call' = IF /\ Exists(memory, call[c].key)
                  /\ NotExpired(stamp[call[c].key], call[c].ts, call[c].ttl)
               THEN [call EXCEPT ![c] = IdleCall]
               ELSE [call EXCEPT ![c].pc = "set"]
    /\ UNCHANGED <<dmOthers, memory, stamp, now, dmConnected, connectCalls, opsStarted>>

\* save_or_overwrite: await self.redis.set(key, value)
DmSet(c) ==
    /\ call[c].pc = "set"
    /\ memory' = memory \cup {call[c].key}
    /\ stamp' = [stamp EXCEPT ![call[c].key] = call[c].ts]
    /\ call' = [call EXCEPT ![c] = IdleCall]
    /\ UNCHANGED <<dmOthers, now, dmConnected, connectCalls, opsStarted>>

\* time.time() moves on
Tick ==
    /\ now < MaxTime
    /\ now' = now + 1
    /\ UNCHANGED <<dmOthers, memory, stamp, dmConnected, connectCalls, call, opsStarted>>

\* the Redis server goes away, or comes back
Outage ==
    /\ reachable' = ~reachable
    /\ UNCHANGED <<faultOthers, dedupMemVars, memory, dmLast, dmClosed, dmCloseCalls>>

\* variant of ConnectFailed: the flag is set although connect() raised
ConnectFailedFlagSet == TRUE

\* self.connected after `await self.connect()` raised: the assignment
\* self.connected = True on the next line is not reached
ConnectFailed == FALSE

\* connect() raises on an unreachable store; no operation catches it
DmConnectFail(c) ==
    /\ ~reachable /\ call[c].pc = "connecting"
    /\ dmConnected' = (dmConnected \/ ConnectFailed)
    /\ call' = [call EXCEPT ![c] = IdleCall]
    /\ dmLast' = "raised"
    /\ UNCHANGED <<faultOthers, memory, stamp, now, connectCalls, opsStarted, reachable,
                   dmClosed, dmCloseCalls>>

\* the Redis command an operation awaits raises on an unreachable store;
\* no operation catches it
DmCommandFail(c) ==
    /\ ~reachable /\ call[c].pc \in {"run", "ttl_get", "set"}
    /\ call' = [call EXCEPT ![c] = IdleCall]
    /\ dmLast' = "raised"
    /\ UNCHANGED <<faultOthers, memory, stamp, now, dmConnected, connectCalls, opsStarted,
                   reachable, dmClosed, dmCloseCalls>>

\* DedupMemory.close(): [ret, closed]; returns at once when not connected
DedupClose(isConnected, isReachable, isClosed) ==
    IF ~isConnected THEN [ret |-> "returned", closed |-> isClosed]
    ELSE IF ~isReachable THEN [ret |-> "raised", closed |-> isClosed]
    ELSE [ret |-> "returned", closed |-> TRUE]

\* a caller awaits close()
DmClose ==
    /\ dmCloseCalls < MaxCloses
    /\ dmCloseCalls' = dmCloseCalls + 1
    /\ dmLast' = DedupClose(dmConnected, reachable, dmClosed).ret
    /\ dmClosed' = DedupClose(dmConnected, reachable, dmClosed).closed
    /\ UNCHANGED <<faultOthers, dedupMemVars, memory, reachable>>

(* ------------------------------- logger -------------------------------- *)
\* names the modules pass: __name__, os.path.basename(__file__), the test's
LoggerNames == {"test_logger", "taotie.gatherer", "base.py"}

\* Logger.__new__: super().__new__ only while cls._instance is None
LoggerNew(objects) == IF objects = 0 THEN 1 ELSE objects

\* Logger.__init__(logger_name, verbose): [name, verbose] of the instance;
\* the body runs only `if not hasattr(self, "logger")`
LoggerInit(fresh, name, verbose, logger_name, isVerbose) ==
    IF fresh
    THEN [name |-> logger_name, verbose |-> isVerbose]
    ELSE [name |-> name, verbose |-> verbose]

\* Logger(logger_name, verbose)
LoggerCall(logger_name, isVerbose) ==
    /\ Len(loggerLog) < MaxLoggers
    /\ logObjects' = LoggerNew(logObjects)
    /\ LET r == LoggerInit(logObjects = 0, logName, logVerbose, logger_name, isVerbose) IN
        /\ logName' = r.name
        /\ logVerbose' = r.verbose
        /\ loggerLog' = Append(loggerLog, [logger_name |-> logger_name,
                                           verbose |-> isVerbose,
                                           name |-> r.name])
    /\ UNCHANGED loggerOthers

(* --------------------------- specifications ---------------------------- *)
GathererNext ==
    \/ GathererConnect
    \/ GathererCheckEmpty
    \/ GathererWake
    \/ GathererGet
    \/ RedisPoll
    \/ RedisPollWake
    \/ GathererDispatch
    \/ GathererRetry
    \/ GathererCancelled

ConsumerNext == ConsumerReturn \/ ConsumerRaise

Next ==
    \/ GathererNext
    \/ ConsumerNext
    \/ \E s \in Inputs : Put(s)
    \/ StopFlag
    \/ Signal

Spec == Init /\ [][Next]_vars

\* every sleep and every poll ends, and every process call ends
FairSpec == Spec /\ WF_vars(GathererNext) /\ WF_vars(ConsumerNext)

\* the pipeline with a Redis client that can fail
FaultNext == Next \/ TransportError
FaultSpec == Init /\ [][FaultNext]_vars

\* a source with or without a dedup memory, making _send_data calls
\* the dedup store outlives the process: it may hold keys before the source starts
SourceInit ==
    /\ Construction
    /\ dedupAttached \in BOOLEAN
    /\ memory \in SUBSET Ids
    /\ ComponentsInit
SourceNext ==
    \/ \E info \in Informations : SendData(info)
    \/ \E batch \in Flushes : TwitterFlush(batch)
SourceSpec == SourceInit /\ [][SourceNext]_vars

GithubNext ==
    \/ \E repos \in RepoLists : GhGetTrending(repos)
    \/ GhProcessRepo
    \/ GhSleep
GithubSpec == SourceInit /\ [][GithubNext]_vars

HttpNext == \E req \in Requests : HttpRequest(req)
HttpSpec == SourceInit /\ [][HttpNext]_vars

\* the pipeline on a channel other clients publish on, with an owner that closes
\* the queue
ChannelNext ==
    \/ Next
    \/ \E s \in Inputs : ForeignPublish(s)
    \/ Close
ChannelSpec == Init /\ [][ChannelNext]_vars

\* the Consumer on its own: the queue plays no part and is held fixed
IndexInit ==
    /\ Construction /\ dedupAttached = FALSE /\ memory = {}
    /\ backend = "simple" /\ batch_size = 1
    /\ \E d \in BOOLEAN : ConsumerInit(d)
    /\ DedupMemoryInit
    /\ SourcesInit
    /\ ExtrasInit
IndexNext == \E msgs \in Batches : Process(msgs)
IndexSpec == IndexInit /\ [][IndexNext]_vars

DedupNext ==
    \/ \E c \in Callers, op \in Ops, key \in Ids, ttl \in Ttls : DmCall(c, op, key, ttl)
    \/ \E c \in Callers : DmConnected(c)
    \/ \E c \in Callers : DmRun(c)
    \/ \E c \in Callers : DmTtlGet(c)
    \/ \E c \in Callers : DmSet(c)
    \/ Tick
\* the DedupMemory on its own: the queue plays no part and is held fixed
DedupInit == Init /\ backend = "simple" /\ batch_size = 1
DedupSpec == DedupInit /\ [][DedupNext]_vars

\* one record at a time, from its constructor to the consumer's mapping
RecordsInit ==
    /\ Construction /\ dedupAttached = FALSE /\ memory = {}
    /\ batch_size = 1
    /\ ConsumerInit(FALSE) /\ DedupMemoryInit /\ SourcesInit
    /\ \E r \in Records : RecordInit(r)
    /\ NoSourceBuilt
    /\ StoreUp
    /\ NoLogger
RecordNext == RecordEncode \/ RecordPut \/ RecordFilter
RecordSpec == RecordsInit /\ [][RecordNext]_vars

\* sources being constructed with and without a sink, and started
CtorNext ==
    \/ \E o \in SourceObjs, sink \in {"None", "queue"} : Construct(o, sink)
    \/ \E o \in SourceObjs : SourceStart(o)
CtorSpec == Init /\ [][CtorNext]_vars

\* save_or_overwrite calls alone, from concurrent callers, while time passes
SaveNext ==
    \/ \E c \in Callers, key \in Ids, ttl \in Ttls :
           DmCall(c, "save_or_overwrite", key, ttl)
    \/ \E c \in Callers : DmConnected(c)
    \/ \E c \in Callers : DmTtlGet(c)
    \/ \E c \in Callers : DmSet(c)
    \/ Tick
SaveSpec == DedupInit /\ [][SaveNext]_vars

\* DedupMemory on a store that can become unreachable
OutageNext ==
    \/ \E c \in Callers, op \in Ops :
           \E ttl \in IF op \in {"check_and_save", "save_or_overwrite"}
                      THEN Ttls ELSE {NoTtl} :
               DmCall(c, op, "1", ttl)
    \/ \E c \in Callers : reachable /\ DmConnected(c)
    \/ \E c \in Callers : reachable /\ DmRun(c)
    \/ \E c \in Callers : reachable /\ DmTtlGet(c)
    \/ \E c \in Callers : reachable /\ DmSet(c)
    \/ \E c \in Callers : DmConnectFail(c)
    \/ \E c \in Callers : DmCommandFail(c)
    \/ Outage
    \/ DmClose
OutageSpec == DedupInit /\ [][OutageNext]_vars

\* the modules of one process constructing their loggers
LoggerNext == \E logger_name \in LoggerNames, isVerbose \in BOOLEAN :
                  LoggerCall(logger_name, isVerbose)
LoggerSpec == DedupInit /\ [][LoggerNext]_vars

OrchNext ==
    \/ \E source \in SourceObjs : AddSource(source)
    \/ SetGatherer
    \/ OrchRun
    \/ OrchStartSource
    \/ OrchStartGatherer
OrchSpec == Init /\ [][OrchNext]_vars

(* ------------------------------- claims -------------------------------- *)
Min(a, b) == IF a <= b THEN a ELSE b
IsPrefix(s, u) == Len(s) <= Len(u) /\ s = SubSeq(u, 1, Len(s))

RECURSIVE Flatten(_)
Flatten(batches) ==
    IF batches = <<>> THEN <<>> ELSE Head(batches) \o Flatten(Tail(batches))

RECURSIVE Chunks(_, _)
\* s cut into consecutive pieces of n, the last one possibly shorter
Chunks(s, n) ==
    IF s = <<>> THEN <<>>
    ELSE IF Len(s) <= n THEN <<s>>
    ELSE <<SubSeq(s, 1, n)>> \o Chunks(SubSeq(s, n + 1, Len(s)), n)

\* C1: a put of a text that does not parse returns False, raises nothing and
\* leaves the queue as it was (either backend); on the in-process backend a
\* put of a text that parses returns True and appends exactly that text.
C1_PutValidation ==
    [][putCalls' # putCalls =>
        LET s == lastPut'.arg IN
        IF JsonLoads(s).ok
        THEN backend = "simple" =>
                (lastPut'.ret = "True" /\ queue' = Append(queue, s))
        ELSE lastPut'.ret = "False" /\ queue' = queue /\ pubsub' = pubsub]_vars

C1_Witness ==
    /\ backend = "simple"
    /\ putCalls = 3
    /\ lastPut.ret = "False"
    /\ Len(queue) = 2

\* C2: the result of get(batch_size) never holds more than batch_size
\* messages, on either backend, for every batch_size >= 0.
C2_BatchCap == Len(messages) <= batch_size

C2_Witness ==
    /\ pc = "got"
    /\ batch_size >= 1
    /\ Len(messages) = batch_size
    /\ (queue # <<>> \/ pubsub # <<>>)

\* C3: on the in-process backend the concatenation of all get results is a
\* prefix of the sequence of accepted puts.
C3_Fifo == backend = "simple" => IsPrefix(getLog, putLog)

C3_Witness ==
    /\ backend = "simple"
    /\ pc = "got"
    /\ Len(messages) = 3
    /\ messages = putLog
    /\ messages[1] # messages[2] /\ messages[2] # messages[3] /\ messages[1] # messages[3]

\* C4: in every reachable state of the in-process queue, get(N) returns the
\* first min(N, k) of its k messages at once and leaves the rest; with k = 0
\* it returns the empty list.
C4_SimpleGetExact ==
    backend = "simple" =>
        \A n \in 0..MaxBatch :
            LET r == SimpleGet(queue, n)
                m == Min(n, Len(queue))
            IN /\ r.messages = SubSeq(queue, 1, m)
               /\ r.queue = SubSeq(queue, m + 1, Len(queue))

C4_Witness ==
    /\ backend = "simple"
    /\ pc = "got"
    /\ batch_size = 3
    /\ Len(messages) = 2
    /\ queue = <<>>

\* C5: on the in-process backend with batch_size >= 1, when every record was
\* enqueued before the gatherer's first get, the process calls are the
\* consecutive pieces of batch_size records of what was fetched, in enqueue
\* order; once the queue is drained they are ceil(k / batch_size) batches
\* that together are the k records.
C5_EndToEndBatching ==
    (backend = "simple" /\ batch_size >= 1 /\ ~latePut /\ pc # "got") =>
        /\ processLog = Chunks(Filter(getLog), batch_size)
        /\ (firstGet /\ queue = <<>>) =>
              /\ Flatten(processLog) = Filter(putLog)
              /\ Len(processLog) * batch_size >= Len(putLog)
              /\ (Len(processLog) - 1) * batch_size < Len(putLog)

C5_Witness ==
    /\ backend = "simple"
    /\ batch_size = 2
    /\ ~latePut
    /\ queue = <<>>
    /\ Len(putLog) = 3
    /\ Len(processLog) = 2
    /\ Len(processLog[1]) = 2
    /\ Len(processLog[2]) = 1

\* C6: at most one consumer.process call is in flight, and none is in flight
\* while the gatherer issues or runs a get.
C6_Backpressure ==
    /\ Cardinality(InFlight) <= 1
    /\ pc \in {"get", "poll", "poll_sleep", "got"} => InFlight = {}

C6_Witness ==
    /\ Len(processLog) = 2
    /\ 1 \in returned
    /\ InFlight = {2}
    /\ pc = "process"

\* C7: when the gatherer has exited through cancellation, every batch it
\* took from the queue and handed to consumer.process was processed to the
\* end.
C7_GracefulDrain == pc = "done" => returned = 1..Len(processLog)

\* C8: once the running flag is false the gatherer loop eventually exits,
\* on either backend.  Stated here for batch_size >= 1; the claim also covers
\* batch_size = 0, where every get is a zero-length batch.
C8_FlagCancellation ==
    (batch_size >= 1 /\ ~running) ~> (pc \in {"done", "error"})

\* the gatherer no longer keeps running, or a process call did not return
Stopped == ~running \/ cancelRequested \/ failed # {}
DeliveredAt(n) ==
    /\ Len(Flatten(processLog)) >= n
    /\ Flatten(processLog)[n] = JsonLoads(putLog[n]).val

\* C9 as stated: on the in-process backend every accepted message is
\* eventually passed to consumer.process, while the gatherer keeps running
\* and every process call returns.
C9_AtLeastOnce ==
    \A n \in 1..MaxPuts :
        (backend = "simple" /\ Len(putLog) >= n) ~> (Stopped \/ DeliveredAt(n))

\* C9 amended: the same, for a gatherer constructed with batch_size >= 1.
C9_AtLeastOncePositiveBatch ==
    \A n \in 1..MaxPuts :
        (backend = "simple" /\ batch_size >= 1 /\ Len(putLog) >= n)
            ~> (Stopped \/ DeliveredAt(n))

C9_Witness ==
    /\ backend = "simple"
    /\ batch_size >= 1
    /\ ~Stopped
    /\ latePut
    /\ Len(putLog) = 3
    /\ Flatten(processLog) = Filter(putLog)

\* C10: with a dedup memory attached, _send_data calls with records that
\* share an id make one sink.put call between them.
C10_DedupIdempotence ==
    dedupAttached =>
        \A id \in Ids :
            Cardinality({i \in DOMAIN sinkPutCalls :
                            \E c \in Contents :
                                sinkPutCalls[i] = Encode(Information(id, c))}) <= 1

\* C11: with a dedup memory attached, a _send_data call whose record id the
\* memory already holds returns False and makes no sink.put call; the queue
\* stays as it was.
C11_DropsKnown ==
    (dedupAttached /\ lastSend.ret # "none" /\ lastSend.known) =>
        /\ lastSend.ret = "False"
        /\ lastSend.puts = 0
        /\ queue = <<>>

C13_ReturnsEnqueued ==
    lastSend.ret # "none" =>
        lastSend.ret = IF lastSend.enqueued THEN "True" ELSE "False"

\* C14: once run() was called with no source registered or with no gatherer
\* set, no source has been started and run() has not raised.
C14_FailFast ==
    (orchPc # "config" /\ (added = <<>> \/ ~gathererSet)) =>
        /\ started = {}
        /\ orchPc # "raised"

\* C15: once run() has gone past its launch loop after add_source calls and a
\* set_gatherer call, every source passed to add_source has been started, two
\* sources of one class included.
C15_StartsEverySource ==
    (orchPc # "config" /\ todo = <<>> /\ gathererSet) =>
        \A i \in DOMAIN added : added[i] \in started

\* C16: a get that returned an empty list is followed by the sleep and a new
\* round of the loop, with no consumer.process call; process is never called
\* with an empty batch.
C16_ZeroLengthBatch ==
    [][/\ (pc = "got" /\ messages = <<>> /\ pc' # pc)
           => (pc' = "sleep_zero" /\ processLog' = processLog)
       /\ (pc = "sleep_zero" /\ pc' # pc) => pc' \in {"top", "done"}
       /\ \A i \in DOMAIN processLog' : processLog'[i] # <<>>]_vars

C16_Witness ==
    /\ pc = "sleep_zero"
    /\ messages = <<>>
    /\ firstGet

\* C17: when json.loads rejects any message of a batch, Gatherer.run ends with
\* the error and consumer.process is called with no message of that batch,
\* neither at that step nor later.
C17_BatchAbort ==
    [][/\ (pc = "got" /\ ~FilterOk(messages) /\ pc' # pc)
           => (pc' = "error" /\ processLog' = processLog)
       /\ pc = "error" => (pc' = "error" /\ processLog' = processLog)]_vars

C17_Witness ==
    /\ pc = "error"
    /\ ~FilterOk(messages)
    /\ \E i \in DOMAIN messages : JsonLoads(messages[i]).ok
    /\ failed = {}

\* C18: on the Redis backend empty() is False in every state (not connected,
\* connected with or without unread payloads, closed), so the gatherer never
\* waits in the empty-queue sleep loop: it goes from the emptiness test to get.
C18_RedisNeverEmpty ==
    backend = "redis" =>
        /\ ~QueueEmpty
        /\ ~check_empty
        /\ pc # "sleep_empty"

C18_Witness ==
    /\ backend = "redis"
    /\ pc = "poll_sleep"
    /\ pubsub = <<>>
    /\ arrived = <<>>

\* C19: on either backend, close() calls made on a queue that never connected,
\* one or two of them, complete without raising and leave the queue as it was.
C19_CloseWithoutConnect ==
    (~connected /\ closeCalls > 0) =>
        /\ lastClose = "None"
        /\ ~closed

\* the texts a Redis get has collected, while it polls and when it returns
RedisGetState ==
    backend = "redis" =>
        /\ pc \in {"poll", "poll_sleep"} =>
               /\ Len(messages) < batch_size
               /\ IsPrefix(getLog \o messages, arrived)
        /\ pc = "got" =>
               /\ Len(messages) = batch_size
               /\ IsPrefix(getLog, arrived)
               /\ messages = SubSeq(getLog, Len(getLog) - batch_size + 1, Len(getLog))

\* C20: RedisMessageQueue.get(N) returns only with exactly N messages, the next
\* N the subscription received, in arrival order; an empty poll is followed by
\* the short sleep and another poll, so with fewer than N arrivals get goes on
\* polling and does not return.
C20_RedisGetWaitsForN ==
    [][/\ RedisGetState'
       /\ (pc = "poll" /\ pubsub = <<>> /\ pc' # pc) => pc' \in {"poll_sleep", "done"}
       /\ (pc = "poll_sleep" /\ pc' # pc) => pc' \in {"poll", "done"}]_vars

C20_Witness ==
    /\ backend = "redis"
    /\ pc = "got"
    /\ batch_size = 2
    /\ Len(arrived) = 3
    /\ foreignCount = 1
    /\ messages = SubSeq(arrived, 1, 2)

\* C21: with dedup enabled, no message id reaches the _process hook more than
\* once, over all process calls and within one batch.
C21_ForwardedOnce ==
    dedup =>
        \A i, j \in DOMAIN Flatten(hookLog) :
            i # j => IdOf(Flatten(hookLog)[i]) # IdOf(Flatten(hookLog)[j])

\* C22: the ids in in_memory_index never shrink; a dedup-enabled process call
\* that returns leaves the id of every forwarded message in the index; with
\* dedup disabled the batch is forwarded as given and the index stays as it was.
C22_IndexMonotone ==
    [][/\ IndexKeys(in_memory_index) \subseteq IndexKeys(in_memory_index')
       /\ (dedup /\ Len(hookLog') > Len(hookLog)) =>
              \A i \in DOMAIN hookLog'[Len(hookLog')] :
                  IdOf(hookLog'[Len(hookLog')][i]) \in IndexKeys(in_memory_index')
       /\ (~dedup /\ Len(hookLog') > Len(hookLog)) =>
              /\ hookLog'[Len(hookLog')] = lastProcess'.arg
              /\ in_memory_index' = in_memory_index]_vars

C22_Witness ==
    /\ dedup
    /\ Len(hookLog) = 2
    /\ Cardinality(IndexKeys(in_memory_index)) = 2
    /\ Len(hookLog[2]) = 1
    /\ Len(lastProcess.arg) = 2

\* C23: two callers that run check_and_save for the same key are never both
\* past the existence check with the key seen absent and the write still to
\* come: at most one of them concludes it is the first.
C23_KeyAtomicity ==
    \A c1, c2 \in Callers :
        (/\ c1 # c2
         /\ call[c1].op = "check_and_save" /\ call[c2].op = "check_and_save"
         /\ call[c1].key = call[c2].key
         /\ call[c1].sawAbsent /\ call[c2].sawAbsent)
            => ~(call[c1].pc = "set" /\ call[c2].pc = "set")

\* C29: when check_and_save(key, ttl) has looked the key up, it returns without
\* writing if the key exists and its timestamp is not older than ttl, and it
\* goes on to write the current timestamp if the key is absent or, with a ttl
\* given, the stored timestamp is older than ttl.
C29_CheckAndSave ==
    [][\A c \in Callers :
           (call[c].pc = "run" /\ call[c].op = "check_and_save" /\ call'[c] # call[c]) =>
               IF /\ Exists(memory, call[c].key)
                  /\ ~(call[c].ttl.given /\ stamp[call[c].key] + call[c].ttl.secs < now)
               THEN call'[c].pc = "idle" /\ memory' = memory /\ stamp' = stamp
               ELSE call'[c].pc \in {"ttl_get", "set"} /\ call'[c].ts = now]_vars

\* C30: connect() is executed at most once for one DedupMemory, however its
\* operations interleave.
C30_SingleConnect == connectCalls <= 1

\* the texts of one id the queue holds
Copies(id) ==
    LET visible == IF backend = "simple" THEN queue
                   ELSE [i \in DOMAIN pubsub |-> Utf8Decode(pubsub[i])] IN
    {i \in DOMAIN visible :
        \E c \in Contents : visible[i] = Encode(Information(id, c))}

\* _send_data calls made with one id
SendsOf(id) == {i \in DOMAIN sendLog : GetId(sendLog[i]) = id}

C25_EnrichmentNonFatal ==
    \A id \in ghFailed :
        /\ ghPc # "raised"
        /\ \E i \in DOMAIN sendLog : sendLog[i] = Information(id, "")

\* C26: a request answered "ok" made exactly one _send_data call, and a request
\* answered 400, "error" or "unknown content type" made none.
C26_OneRecordPerAccepted ==
    \A i \in DOMAIN httpLog :
        /\ httpLog[i].answer = "ok" => httpLog[i].sends = 1
        /\ httpLog[i].answer \in {"400", "error", "unknown content type"}
               => httpLog[i].sends = 0

\* C27: the records of a source that are visible in the queue are the records
\* it detected, in the order it detected them.
C27_SourceOrder ==
    LET visible == IF backend = "simple" THEN queue
                   ELSE [i \in DOMAIN pubsub |-> Utf8Decode(pubsub[i])] IN
    visible = [i \in DOMAIN sendLog |-> Encode(sendLog[i])]

\* C28: on the in-process backend, while a consumer.process call is in flight
\* a producer's put is never held back: every put can be made, a put of valid
\* JSON returns True and lengthens the queue by that message, whatever the
\* queue already holds, and the gatherer stays in its process call.
C28_SlowConsumer ==
    [][(backend = "simple" /\ pc = "process" /\ InFlight # {}) =>
           /\ putCalls + foreignCount < MaxPuts => \A s \in Inputs : ENABLED Put(s)
           /\ (putCalls' = putCalls + 1 /\ JsonLoads(lastPut'.arg).ok) =>
                  /\ lastPut'.ret = "True"
                  /\ queue' = Append(queue, lastPut'.arg)
                  /\ pc' = pc]_vars

C28_Witness ==
    /\ backend = "simple"
    /\ pc = "process"
    /\ InFlight # {}
    /\ Len(queue) = 2
    /\ lastPut.ret = "True"

\* the orchestrator is Configured when a source is registered and a gatherer set
Configured == sources # <<>> /\ gathererSet

\* C31: the orchestrator only moves forward through its lifecycle: no source is
\* started while the orchestrator is not Configured, and run() ends in Stopped,
\* never by raising.
C31_Lifecycle ==
    /\ started # {} => Configured
    /\ orchPc # "raised"

\* an error other than cancellation was raised inside Gatherer.run
Errored == failed # {} \/ pc = "error"

\* C32: an error raised by connect, get, deserialization or consumer.process
\* ends Gatherer.run: the gatherer is in its error exit as soon as the error is
\* raised, stays there, and makes no further get or process call.
C32_NoRetry ==
    [][/\ Errored' => pc' = "error"
       /\ Errored => /\ getLog' = getLog
                     /\ processLog' = processLog
                     /\ firstGet' = firstGet]_vars

\* consumer.process raised while more messages were waiting in the queue
C32_Witness ==
    /\ pc = "error" /\ failed # {}
    /\ queue # <<>> \/ pubsub # <<>>

C34_NoSinkRefused ==
    \A o \in SourceObjs :
        ctorArg[o] = "None" =>
            /\ life[o] = "raised"
            /\ sinkAttr[o] = "unset"
            /\ o \notin atexitHooks

\* one source was refused for its absent sink while another one runs
C34_Witness ==
    \E o, q \in SourceObjs :
        /\ ctorArg[o] = "None" /\ life[o] = "raised"
        /\ ctorArg[q] = "queue" /\ life[q] = "running" /\ q \in atexitHooks

\* C35: save_or_overwrite(key, ttl) takes the current timestamp when it is
\* entered; without ttl it goes straight to writing it; with ttl it returns and
\* leaves the store alone when the key holds a timestamp newer than
\* timestamp - ttl, and writes otherwise; what it writes under key is that
\* timestamp.
C35_SaveOrOverwrite ==
    [][\A c \in Callers :
           (call'[c] # call[c] /\ "save_or_overwrite" \in {call[c].op, call'[c].op}) =>
               /\ (call[c].pc \in {"idle", "connecting"} /\ call'[c].pc # "connecting") =>
                      /\ call'[c].ts = now
                      /\ call'[c].pc = IF call'[c].ttl.given THEN "ttl_get" ELSE "set"
               /\ call[c].pc = "ttl_get" =>
                      /\ memory' = memory /\ stamp' = stamp
                      /\ IF /\ call[c].key \in memory
                            /\ stamp[call[c].key] > call[c].ts - call[c].ttl.secs
                         THEN call'[c].pc = "idle"
                         ELSE call'[c].pc = "set" /\ call'[c].ts = call[c].ts
               /\ call[c].pc = "set" =>
                      /\ call[c].key \in memory'
                      /\ stamp'[call[c].key] = call[c].ts]_vars

\* a save with a ttl found a timestamp exactly ttl old and is about to
\* overwrite it
C35_Witness ==
    \E c \in Callers :
        /\ call[c].op = "save_or_overwrite" /\ call[c].ttl.given /\ call[c].pc = "set"
        /\ call[c].key \in memory
        /\ stamp[call[c].key] = call[c].ts - call[c].ttl.secs
        /\ call[c].ts > 0

\* C36: on an unreachable store every step of a DedupMemory operation ends the
\* operation with the error and changes nothing in the store; a failed connect
\* leaves the connected flag as it was, so with the flag still false the next
\* operation connects again; close() on an
\* instance that is not connected returns and closes nothing.
C36_FailLoud ==
    [][/\ \A c \in Callers :
            (~reachable /\ call[c].pc # "idle" /\ call'[c] # call[c]) =>
                /\ call'[c].pc = "idle" /\ dmLast' = "raised"
                /\ memory' = memory /\ stamp' = stamp
                /\ call[c].pc = "connecting" => dmConnected' = dmConnected
       /\ \A c \in Callers :
            (~dmConnected /\ call[c].pc = "idle" /\ call'[c].pc # "idle") =>
                call'[c].pc = "connecting" /\ connectCalls' = connectCalls + 1
       /\ (dmCloseCalls' # dmCloseCalls /\ ~dmConnected) =>
                /\ dmLast' = "returned"
                /\ dmClosed' = dmClosed]_vars

\* a connect failed, a later operation connected again, and its command then
\* failed on a new outage; close() was called before any connect succeeded
C36_Witness ==
    /\ dmLast = "raised" /\ dmConnected /\ ~reachable
    /\ connectCalls >= 2 /\ dmCloseCalls >= 1 /\ ~dmClosed
    /\ \A c \in Callers : call[c].pc = "idle"

\* C37: every Logger(name) construction returns a logger whose underlying
\* logger name is the name given, and all constructions share one instance.
C37_LoggerName ==
    /\ logObjects <= 1
    /\ \A i \in DOMAIN loggerLog : loggerLog[i].name = loggerLog[i].logger_name

\* C38: on the in-process backend, written only through put, every queued
\* message and every message a get returned parses as JSON, and Gatherer.run
\* never ends on a deserialization failure: it ends in error only when
\* consumer.process raised.
C38_QueueHoldsJson ==
    backend = "simple" =>
        /\ \A i \in DOMAIN queue : JsonLoads(queue[i]).ok
        /\ \A i \in DOMAIN messages : JsonLoads(messages[i]).ok
        /\ pc = "error" => failed # {}

\* put has turned a malformed text away, and the gatherer has parsed one
\* batch while another message waits in the queue
C38_Witness ==
    /\ backend = "simple"
    /\ putCalls > Len(putLog)
    /\ queue # <<>>
    /\ pc = "process" /\ Len(processLog) = 1

\* C39 as stated: on the in-process backend with one gatherer, a get made
\* after empty() returned false returns at least one message and the
\* zero-length branch is never taken.
C39_ZeroLengthUnreachable ==
    backend = "simple" =>
        /\ pc = "got" => Len(messages) >= 1
        /\ pc # "sleep_zero"

\* C39, amended: the same for a gatherer constructed with batch_size >= 1;
\* with one gatherer the zero-length branch is taken only when batch_size is 0.
C39_ZeroLengthNeedsZeroBatch ==
    backend = "simple" =>
        /\ (pc = "got" /\ batch_size >= 1) => Len(messages) >= 1
        /\ pc = "sleep_zero" => batch_size = 0

\* the gatherer slept on an empty queue, later saw it non-empty and its get
\* took everything there was, fewer messages than batch_size
C39_Witness ==
    /\ backend = "simple" /\ batch_size >= 2
    /\ pc = "got" /\ ~check_empty
    /\ Len(messages) = 1 /\ queue = <<>>
    /\ Len(processLog) >= 1

====
